---- MODULE Spec2Model ----
(***************************************************************************)
(* Model of the JNI bridge app/src/main/cpp/TFLiteEngineJNI.cpp: five      *)
(* extern "C" entry points (createTFLiteEngine, loadModel, freeModel,      *)
(* transcribeBuffer, transcribeFile) that reach a native TFLiteEngine      *)
(* object through a raw pointer carried in a jlong.                        *)
(*                                                                         *)
(* Every statement of every entry point is one atomic step of the calling  *)
(* thread; several threads may be inside the bridge at once.  The managed  *)
(* caller is modelled as an environment that may pass any handle value it  *)
(* was ever given, live or not.  The TFLiteEngine class itself is not part *)
(* of the file; its three methods are modelled from the written contract.  *)
(***************************************************************************)
EXTENDS Integers, Sequences, FiniteSets, TLC

\* ---------------------------------------------------------------- bounds
\* number of distinct heap addresses operator new can hand out
MaxAddr == 2
\* longest managed sample array passed to transcribeBuffer
MaxLen == 2
\* total number of bridge calls the managed caller issues in one run
MaxCalls == 4

Threads == {"t1", "t2"}
Addr == 1..MaxAddr

\* ------------------------------------------------------- managed values
\* a managed float[] of length n; the samples are pairwise distinct so that
\* order and length of a copy are observable.  The caller passes the empty
\* array or one of MaxLen samples
Ramp(n) == [i \in 1..n |-> i]
JavaArrays == {Ramp(0), Ramp(MaxLen)}

\* managed strings are sequences of UTF-16 code units
ExistingPath == <<109>>
MissingPath == <<233>>
JavaPaths == {ExistingPath, MissingPath}

\* jboolean values the managed runtime passes
JNI_FALSE == 0
JNI_TRUE == 1
JBooleans == {JNI_FALSE, JNI_TRUE}

\* release modes of ReleaseFloatArrayElements
JNI_COMMIT == 1
JNI_ABORT == 2

\* ------------------------------------------------- JNI string marshaling
\* modified UTF-8 encoding of one UTF-16 code unit (U+0000 takes two bytes)
ModUTF8Unit(c) ==
  IF c >= 1 /\ c <= 127 THEN <<c>>
  ELSE IF c <= 2047 THEN <<192 + (c \div 64), 128 + (c % 64)>>
  ELSE <<224 + (c \div 4096), 128 + ((c \div 64) % 64), 128 + (c % 64)>>

RECURSIVE ModUTF8(_)
ModUTF8(s) == IF s = <<>> THEN <<>> ELSE ModUTF8Unit(Head(s)) \o ModUTF8(Tail(s))

\* GetStringUTFChars: a fresh NUL-terminated modified UTF-8 buffer
GetStringUTFChars(s) == ModUTF8(s) \o <<0>>

\* what a reader of a const char* sees: the bytes before the first NUL
RECURSIVE CStrRead(_)
CStrRead(b) ==
  IF b = <<>> \/ Head(b) = 0 THEN <<>> ELSE <<Head(b)>> \o CStrRead(Tail(b))

\* decoding of modified UTF-8 back to UTF-16 code units; a malformed tail is
\* rendered as the replacement unit 65533
RECURSIVE ModUTF8Decode(_)
ModUTF8Decode(b) ==
  IF b = <<>> THEN <<>>
  ELSE IF b[1] < 128 THEN <<b[1]>> \o ModUTF8Decode(Tail(b))
  ELSE IF b[1] >= 192 /\ b[1] < 224 /\ Len(b) >= 2
    THEN <<(b[1] - 192) * 64 + (b[2] - 128)>> \o ModUTF8Decode(SubSeq(b, 3, Len(b)))
  ELSE IF b[1] >= 224 /\ b[1] < 240 /\ Len(b) >= 3
    THEN <<(b[1] - 224) * 4096 + (b[2] - 128) * 64 + (b[3] - 128)>>
         \o ModUTF8Decode(SubSeq(b, 4, Len(b)))
  ELSE <<65533>>

\* std::string::c_str(): the bytes followed by a terminating NUL
c_str(str) == str \o <<0>>

\* NewStringUTF: reads a NUL-terminated modified UTF-8 buffer into a managed string
NewStringUTF(buf) == ModUTF8Decode(CStrRead(buf))

\* ------------------------------------------------- the external engine
\* status codes the engine's load routine can produce
StatusCodes == {-1, 0, 1}
\* transcription texts the engine can produce (std::string, bytes)
Texts == {<<>>, <<104, 105>>}
\* names of the model files present on the device, as the engine sees them
FileExists(path) == path = <<109>>

\* an engine object; failedLoad records that a loadModel on it was given the
\* path of a file that does not exist
NoEngine == [live |-> FALSE, loaded |-> FALSE, failedLoad |-> FALSE]
FreshEngine == [live |-> TRUE, loaded |-> FALSE, failedLoad |-> FALSE]

\* TFLiteEngine::loadModel(path, multilingual): the statuses it may return
TFLiteEngine_loadModel(path, multilingual) ==
  IF FileExists(path) THEN StatusCodes ELSE StatusCodes \ {0}

\* the engine object after loadModel returned status st
TFLiteEngine_afterLoad(obj, path, st) ==
  [obj EXCEPT !.loaded = (st = 0), !.failedLoad = (@ \/ ~FileExists(path))]

\* TFLiteEngine::freeModel(): releases what the model holds
TFLiteEngine_freeModel(obj) == [obj EXCEPT !.loaded = FALSE]

\* TFLiteEngine::transcribeBuffer may overwrite the vector it is given
TFLiteEngine_scribble(v) == {v, [i \in 1..Len(v) |-> 0]}

\* ------------------------------------------------ the five entry points
\* each entry point is the sequence of its statements, named by source line
createTFLiteEngine == <<9, 10>>

\* variants: the path is released before the engine reads it; the engine is
\* deleted when loading is over
loadModelReleasesFirst == <<17, 19, 18, 20>>
loadModelFreesEngine == <<17, 18, 19, 28, 20>>
loadModel == <<17, 18, 19, 20>>

\* variants: no freeModel call; delete before freeModel; no delete
freeModelSkipsRelease == <<28, 29>>
freeModelDeletesFirst == <<28, 27, 29>>
freeModelNoDelete == <<27, 29>>
freeModel == <<27, 28, 29>>

\* variant: the array elements are released before they are copied
transcribeBufferReleasesFirst == <<37, 38, 40, 39, 42, 43>>
transcribeBuffer == <<37, 38, 39, 40, 42, 43>>
transcribeFile == <<50, 51, 52, 53>>

Body(fn) ==
  CASE fn = "createTFLiteEngine" -> createTFLiteEngine
    [] fn = "loadModel" -> loadModel
    [] fn = "freeModel" -> freeModel
    [] fn = "transcribeBuffer" -> transcribeBuffer
    [] fn = "transcribeFile" -> transcribeFile
    [] OTHER -> <<>>

\* reinterpret_cast between TFLiteEngine* and jlong: both are 64 bits wide, the
\* bit pattern is kept, so the address is the handle
reinterpret_cast_jlong(engine) == engine
\* variant: one engine shared by every handle
reinterpret_cast_global(nativePtr) == 1
reinterpret_cast_engine(nativePtr) == nativePtr

\* static_cast<bool>(jboolean)
static_cast_bool(b) == b # 0

\* the int status is returned as a jint of the same width
\* variant: the status is reduced to failed / not failed
ReturnStatusAsBool(result) == IF result = 0 THEN 0 ELSE 1
ReturnStatus(result) == result

\* operator new: storage that holds no live object
\* variant: one statically allocated engine
NewAddrsStatic(hp) == {1}
NewAddrs(hp) == {a \in Addr : ~hp[a].live}

\* the std::vector range constructor copies into storage of its own
\* variant: the vector only refers to samplesPtr
sampleVectorViewsSamplesPtr == TRUE
sampleVectorIsView == FALSE

\* mode given to ReleaseFloatArrayElements
ReleaseMode == JNI_ABORT

\* -------------------------------------------------------------- state
VARIABLES
  heap,      \* native heap: address -> TFLiteEngine object, if one lives there
  nNew,      \* engine objects allocated so far
  nDel,      \* engine objects deallocated so far
  valid,     \* handles the caller received and has not passed to freeModel
  issued,    \* handles the caller ever received
  misuse,    \* the caller used a handle it had freed, or freed one in use
  ub,        \* a deallocated engine object was used
  bufUB,     \* a JNI buffer was used while not acquired
  crashed,   \* the process was killed
  calls,     \* calls issued so far
  frame,     \* per thread: the running entry point, its arguments and locals
  jarr,      \* per thread: the caller's managed float[]
  hist       \* per thread: history of the running call

vars == <<heap, nNew, nDel, valid, issued, misuse, ub, bufUB, crashed, calls,
          frame, jarr, hist>>

NoChars == [state |-> "none", bytes |-> <<>>]
NoElems == [state |-> "none", isCopy |-> FALSE, data |-> <<>>]

EmptyFrame ==
  [fn |-> "idle", ip |-> 0, nativePtr |-> 0, jstr |-> <<>>, jbool |-> 0,
   engine |-> 0, cstr |-> NoChars, length |-> 0, elems |-> NoElems,
   sampleVector |-> <<>>, isView |-> FALSE, result |-> 0, text |-> <<>>,
   retInt |-> 0, retStr |-> <<>>]

NoHist ==
  [trace |-> <<>>, jarr0 |-> <<>>, wasLive |-> FALSE, path |-> <<>>,
   flag |-> FALSE, samples |-> <<>>, status |-> 0, heldAtCall |-> FALSE,
   reached |-> 0]

Init ==
  /\ heap = [a \in Addr |-> NoEngine]
  /\ nNew = 0
  /\ nDel = 0
  /\ valid = {}
  /\ issued = {}
  /\ misuse = FALSE
  /\ ub = FALSE
  /\ bufUB = FALSE
  /\ crashed = FALSE
  /\ calls = 0
  /\ frame = [t \in Threads |-> EmptyFrame]
  /\ jarr = [t \in Threads |-> <<>>]
  /\ hist = [t \in Threads |-> NoHist]

\* the source line thread t executes next; 0 when idle, -1 when it has returned
Line(t) ==
  LET f == frame[t] IN
  IF f.fn = "idle" THEN 0
  ELSE IF f.ip > Len(Body(f.fn)) THEN -1
  ELSE Body(f.fn)[f.ip]

InFlight(t) == Line(t) > 0

Live(hp, p) == p \in Addr /\ hp[p].live
LiveCount == Cardinality({a \in Addr : heap[a].live})

\* frame of t after the statement at hand, with the fields in upd changed
Step(t, f) == [frame EXCEPT ![t] = [f EXCEPT !.ip = @ + 1]]
Logged(t, h) == [hist EXCEPT ![t] = [h EXCEPT !.trace = Append(@, Line(t))]]

\* the engine object a call dereferences
EngineOf(f) ==
  IF f.fn = "createTFLiteEngine" THEN f.engine
  ELSE reinterpret_cast_engine(f.nativePtr)

\* lines that dereference the engine pointer
DerefLines == {18, 27, 28, 42, 51}

\* what a reader of the char buffer sees; a buffer that is not held yields
\* whatever the memory holds
CharsRead(c) ==
  IF c.state = "held" THEN {CStrRead(c.bytes)} ELSE {<<>>, <<109>>}

\* what a reader of samplesPtr[0 .. length) sees in thread t
ElemsRead(t, f) ==
  IF f.elems.state = "none" \/ (f.elems.isCopy /\ f.elems.state # "held")
  THEN {[i \in 1..f.length |-> 0]}
  ELSE {IF f.elems.isCopy THEN f.elems.data ELSE jarr[t]}

\* ---------------------------------------------------- the managed caller
\* threads keep nothing between calls, so a new call runs on the first idle one
Before(u, t) == u = "t1" /\ t = "t2"

\* locals die when the entry point returns; the frame keeps what is returned
Returned(f) ==
  [EmptyFrame EXCEPT !.fn = f.fn, !.ip = f.ip, !.nativePtr = f.nativePtr,
                     !.jstr = f.jstr, !.jbool = f.jbool,
                     !.retInt = f.retInt, !.retStr = f.retStr]

Invoke(t, fn, h, s, b, a) ==
  /\ ~crashed
  /\ frame[t].fn = "idle"
  /\ \A u \in Threads : Before(u, t) => frame[u].fn # "idle"
  /\ calls < MaxCalls
  /\ calls' = calls + 1
  /\ frame' = [frame EXCEPT ![t] =
       [EmptyFrame EXCEPT !.fn = fn, !.ip = 1, !.nativePtr = h, !.jstr = s,
                          !.jbool = b]]
  /\ jarr' = [jarr EXCEPT ![t] = a]
  /\ hist' = [hist EXCEPT ![t] =
       [NoHist EXCEPT !.jarr0 = a,
                      !.wasLive = Live(heap, h)]]
  /\ misuse' = (misuse \/
       (fn # "createTFLiteEngine" /\
          (h \notin valid \/
           (fn = "freeModel" /\
              \E u \in Threads \ {t} : InFlight(u) /\ frame[u].nativePtr = h))))
  /\ valid' = IF fn = "freeModel" THEN valid \ {h} ELSE valid
  /\ UNCHANGED <<heap, nNew, nDel, issued, ub, bufUB, crashed>>

CallCreate(t) ==
  /\ Cardinality(NewAddrs(heap)) > Cardinality({u \in Threads : Line(u) = 9})
  /\ Invoke(t, "createTFLiteEngine", 0, <<>>, 0, <<>>)

CallLoad(t) ==
  \E h \in issued, s \in JavaPaths, b \in JBooleans :
    Invoke(t, "loadModel", h, s, b, <<>>)

CallFree(t) ==
  \E h \in issued : Invoke(t, "freeModel", h, <<>>, 0, <<>>)

CallTranscribeBuffer(t) ==
  \E h \in issued, a \in JavaArrays :
    Invoke(t, "transcribeBuffer", h, <<>>, 0, a)

CallTranscribeFile(t) ==
  \E h \in issued, s \in JavaPaths :
    Invoke(t, "transcribeFile", h, s, 0, <<>>)

\* the call has returned: the caller takes the result
Resume(t) ==
  /\ ~crashed
  /\ Line(t) = -1
  /\ LET got == frame[t].fn = "createTFLiteEngine" IN
     /\ valid' = IF got THEN valid \cup {frame[t].retInt} ELSE valid
     /\ issued' = IF got THEN issued \cup {frame[t].retInt} ELSE issued
  /\ frame' = [frame EXCEPT ![t] = EmptyFrame]
  /\ jarr' = [jarr EXCEPT ![t] = <<>>]
  /\ hist' = [hist EXCEPT ![t] = NoHist]
  /\ UNCHANGED <<heap, nNew, nDel, misuse, ub, bufUB, crashed, calls>>

\* ------------------------------------------------- createTFLiteEngine
\* line 9: TFLiteEngine *engine = new TFLiteEngine();
New(t) ==
  /\ ~crashed
  /\ Line(t) = 9
  /\ \E a \in NewAddrs(heap) :
       /\ heap' = [heap EXCEPT ![a] = FreshEngine]
       /\ frame' = Step(t, [frame[t] EXCEPT !.engine = a])
  /\ nNew' = nNew + 1
  /\ hist' = Logged(t, hist[t])
  /\ UNCHANGED <<nDel, valid, issued, misuse, ub, bufUB, crashed, calls, jarr>>

\* line 10: return reinterpret_cast<jlong>(engine);
ReturnHandle(t) ==
  /\ ~crashed
  /\ Line(t) = 10
  /\ frame' = Step(t, Returned([frame[t] EXCEPT
                         !.retInt = reinterpret_cast_jlong(frame[t].engine)]))
  /\ hist' = Logged(t, hist[t])
  /\ UNCHANGED <<heap, nNew, nDel, valid, issued, misuse, ub, bufUB, crashed,
                 calls, jarr>>

\* ------------------------------------------ loadModel / transcribeFile
\* lines 17 and 50: GetStringUTFChars(path, nullptr)
GetChars(t) ==
  /\ ~crashed
  /\ Line(t) \in {17, 50}
  /\ frame' = Step(t, [frame[t] EXCEPT
       !.cstr = [state |-> "held", bytes |-> GetStringUTFChars(frame[t].jstr)]])
  /\ hist' = Logged(t, hist[t])
  /\ UNCHANGED <<heap, nNew, nDel, valid, issued, misuse, ub, bufUB, crashed,
                 calls, jarr>>

\* line 18: int result = engine->loadModel(modelPathStr, static_cast<bool>(isMultilingual));
LoadModelCall(t) ==
  /\ ~crashed
  /\ Line(t) = 18
  /\ LET f == frame[t]
         e == EngineOf(f)
         live == Live(heap, e)
         flag == static_cast_bool(f.jbool)
     IN \E path \in CharsRead(f.cstr), st \in StatusCodes :
          /\ live => st \in TFLiteEngine_loadModel(path, flag)
          /\ heap' = IF live
                     THEN [heap EXCEPT ![e] = TFLiteEngine_afterLoad(@, path, st)]
                     ELSE heap
          /\ ub' = (ub \/ ~live)
          /\ bufUB' = (bufUB \/ f.cstr.state # "held")
          /\ frame' = Step(t, [f EXCEPT !.result = st])
          /\ hist' = Logged(t, [hist[t] EXCEPT
               !.path = path, !.flag = flag, !.status = st,
               !.heldAtCall = (f.cstr.state = "held"),
               !.reached = e])
  /\ UNCHANGED <<nNew, nDel, valid, issued, misuse, crashed, calls, jarr>>

\* lines 19 and 52: ReleaseStringUTFChars(path, chars)
ReleaseChars(t) ==
  /\ ~crashed
  /\ Line(t) \in {19, 52}
  /\ bufUB' = (bufUB \/ frame[t].cstr.state # "held")
  /\ frame' = Step(t, [frame[t] EXCEPT !.cstr.state = "released"])
  /\ hist' = Logged(t, hist[t])
  /\ UNCHANGED <<heap, nNew, nDel, valid, issued, misuse, ub, crashed, calls,
                 jarr>>

\* line 20: return result;
ReturnResult(t) ==
  /\ ~crashed
  /\ Line(t) = 20
  /\ frame' = Step(t, Returned([frame[t] EXCEPT
                         !.retInt = ReturnStatus(frame[t].result)]))
  /\ hist' = Logged(t, hist[t])
  /\ UNCHANGED <<heap, nNew, nDel, valid, issued, misuse, ub, bufUB, crashed,
                 calls, jarr>>

\* line 51: std::string result = engine->transcribeFile(waveFileStr);
TranscribeFileCall(t) ==
  /\ ~crashed
  /\ Line(t) = 51
  /\ LET f == frame[t]
         e == EngineOf(f)
         live == Live(heap, e)
     IN \E path \in CharsRead(f.cstr), txt \in Texts :
          /\ ub' = (ub \/ ~live)
          /\ bufUB' = (bufUB \/ f.cstr.state # "held")
          /\ frame' = Step(t, [f EXCEPT !.text = txt])
          /\ hist' = Logged(t, [hist[t] EXCEPT
               !.path = path, !.heldAtCall = (f.cstr.state = "held"),
               !.reached = e])
  /\ UNCHANGED <<heap, nNew, nDel, valid, issued, misuse, crashed, calls, jarr>>

\* lines 43 and 53: return env->NewStringUTF(result.c_str());
ReturnText(t) ==
  /\ ~crashed
  /\ Line(t) \in {43, 53}
  /\ frame' = Step(t, Returned([frame[t] EXCEPT
                         !.retStr = NewStringUTF(c_str(frame[t].text))]))
  /\ hist' = Logged(t, hist[t])
  /\ UNCHANGED <<heap, nNew, nDel, valid, issued, misuse, ub, bufUB, crashed,
                 calls, jarr>>

\* ----------------------------------------------------------- freeModel
\* line 27: engine->freeModel();
FreeModelCall(t) ==
  /\ ~crashed
  /\ Line(t) = 27
  /\ LET e == EngineOf(frame[t])
         live == Live(heap, e)
     IN /\ heap' = IF live
                   THEN [heap EXCEPT ![e] = TFLiteEngine_freeModel(@)]
                   ELSE heap
        /\ ub' = (ub \/ ~live)
        /\ hist' = Logged(t, [hist[t] EXCEPT
                                !.reached = e])
  /\ frame' = Step(t, frame[t])
  /\ UNCHANGED <<nNew, nDel, valid, issued, misuse, bufUB, crashed, calls, jarr>>

\* line 28: delete engine;
Delete(t) ==
  /\ ~crashed
  /\ Line(t) = 28
  /\ LET e == EngineOf(frame[t])
         live == Live(heap, e)
     IN /\ heap' = IF live THEN [heap EXCEPT ![e] = NoEngine] ELSE heap
        /\ nDel' = IF live THEN nDel + 1 ELSE nDel
        /\ ub' = (ub \/ ~live)
  /\ frame' = Step(t, frame[t])
  /\ hist' = Logged(t, hist[t])
  /\ UNCHANGED <<nNew, valid, issued, misuse, bufUB, crashed, calls, jarr>>

\* line 29: the function returns
ReturnVoid(t) ==
  /\ ~crashed
  /\ Line(t) = 29
  /\ frame' = Step(t, Returned(frame[t]))
  /\ hist' = Logged(t, hist[t])
  /\ UNCHANGED <<heap, nNew, nDel, valid, issued, misuse, ub, bufUB, crashed,
                 calls, jarr>>

\* ---------------------------------------------------- transcribeBuffer
\* line 37: jsize length = env->GetArrayLength(samples);
GetArrayLength(t) ==
  /\ ~crashed
  /\ Line(t) = 37
  /\ frame' = Step(t, [frame[t] EXCEPT !.length = Len(jarr[t])])
  /\ hist' = Logged(t, hist[t])
  /\ UNCHANGED <<heap, nNew, nDel, valid, issued, misuse, ub, bufUB, crashed,
                 calls, jarr>>

\* line 38: jfloat *samplesPtr = env->GetFloatArrayElements(samples, nullptr);
\* the runtime either pins the array or hands out a copy of it
GetFloatArrayElements(t) ==
  /\ ~crashed
  /\ Line(t) = 38
  /\ \E isCopy \in BOOLEAN :
       frame' = Step(t, [frame[t] EXCEPT !.elems =
         [state |-> "held", isCopy |-> isCopy,
          data |-> IF isCopy THEN jarr[t] ELSE <<>>]])
  /\ hist' = Logged(t, hist[t])
  /\ UNCHANGED <<heap, nNew, nDel, valid, issued, misuse, ub, bufUB, crashed,
                 calls, jarr>>

\* line 39: std::vector<float> sampleVector(samplesPtr, samplesPtr + length);
VectorCtor(t) ==
  /\ ~crashed
  /\ Line(t) = 39
  /\ LET f == frame[t] IN
     /\ \E src \in ElemsRead(t, f) :
          frame' = Step(t, [f EXCEPT
            !.sampleVector = [i \in 1..f.length |-> src[i]],
            !.isView = sampleVectorIsView])
     /\ bufUB' = (bufUB \/ f.elems.state # "held")
  /\ hist' = Logged(t, hist[t])
  /\ UNCHANGED <<heap, nNew, nDel, valid, issued, misuse, ub, crashed, calls,
                 jarr>>

\* line 40: env->ReleaseFloatArrayElements(samples, samplesPtr, JNI_ABORT);
\* mode 0 and JNI_COMMIT write a copy back, JNI_ABORT does not; JNI_COMMIT
\* keeps the buffer
ReleaseFloatArrayElements(t) ==
  /\ ~crashed
  /\ Line(t) = 40
  /\ LET f == frame[t]
         held == f.elems.state = "held"
     IN /\ jarr' = IF held /\ f.elems.isCopy /\ ReleaseMode # JNI_ABORT
                   THEN [jarr EXCEPT ![t] = f.elems.data]
                   ELSE jarr
        /\ frame' = Step(t, [f EXCEPT !.elems.state =
             IF held /\ ReleaseMode = JNI_COMMIT THEN "held" ELSE "released"])
        /\ bufUB' = (bufUB \/ ~held)
  /\ hist' = Logged(t, hist[t])
  /\ UNCHANGED <<heap, nNew, nDel, valid, issued, misuse, ub, crashed, calls>>

\* line 42: std::string result = engine->transcribeBuffer(sampleVector);
\* a vector that only views samplesPtr is read and written through samplesPtr
TranscribeBufferCall(t) ==
  /\ ~crashed
  /\ Line(t) = 42
  /\ LET f == frame[t]
         e == EngineOf(f)
         live == Live(heap, e)
     IN \E in \in (IF f.isView THEN ElemsRead(t, f) ELSE {f.sampleVector}),
           txt \in Texts :
          \E out \in TFLiteEngine_scribble(in) :
            /\ frame' = Step(t, [f EXCEPT
                 !.text = txt,
                 !.sampleVector = IF f.isView THEN @ ELSE out,
                 !.elems.data = IF f.isView /\ f.elems.isCopy THEN out ELSE @])
            /\ jarr' = IF f.isView /\ ~f.elems.isCopy /\ f.elems.state # "none"
                       THEN [jarr EXCEPT ![t] = out]
                       ELSE jarr
            /\ bufUB' = (bufUB \/ (f.isView /\ f.elems.state # "held"))
            /\ ub' = (ub \/ ~live)
            /\ hist' = Logged(t, [hist[t] EXCEPT
                 !.samples = in,
                 !.heldAtCall = (f.elems.state = "held"),
                 !.reached = e])
  /\ UNCHANGED <<heap, nNew, nDel, valid, issued, misuse, crashed, calls>>

\* ------------------------------------------------------------- the run
\* a use of a deallocated engine object may also kill the process on the spot
Crash(t) ==
  /\ ~crashed
  /\ Line(t) \in DerefLines
  /\ ~Live(heap, EngineOf(frame[t]))
  /\ ub' = TRUE
  /\ crashed' = TRUE
  /\ UNCHANGED <<heap, nNew, nDel, valid, issued, misuse, bufUB, calls, frame,
                 jarr, hist>>

Next ==
  \E t \in Threads :
    \/ CallCreate(t)
    \/ CallLoad(t)
    \/ CallFree(t)
    \/ CallTranscribeBuffer(t)
    \/ CallTranscribeFile(t)
    \/ Resume(t)
    \/ New(t)
    \/ ReturnHandle(t)
    \/ GetChars(t)
    \/ LoadModelCall(t)
    \/ ReleaseChars(t)
    \/ ReturnResult(t)
    \/ TranscribeFileCall(t)
    \/ ReturnText(t)
    \/ FreeModelCall(t)
    \/ Delete(t)
    \/ ReturnVoid(t)
    \/ GetArrayLength(t)
    \/ GetFloatArrayElements(t)
    \/ VectorCtor(t)
    \/ ReleaseFloatArrayElements(t)
    \/ TranscribeBufferCall(t)
    \/ Crash(t)

Spec == Init /\ [][Next]_vars

\* ---------------------------------------------------------- properties
Has(t, line) == \E i \in DOMAIN hist[t].trace : hist[t].trace[i] = line
Count(t, line) == Cardinality({i \in DOMAIN hist[t].trace : hist[t].trace[i] = line})
Index(t, line) == CHOOSE i \in DOMAIN hist[t].trace : hist[t].trace[i] = line
IsPrefix(p, q) == Len(p) <= Len(q) /\ SubSeq(q, 1, Len(p)) = p
Moved(t) == frame'[t] # frame[t]
Idle == \A t \in Threads : frame[t].fn = "idle"

\* parts of C1, stated below
C1_Inv ==
  ~misuse =>
    \A t \in Threads :
      (frame[t].fn = "createTFLiteEngine" /\ Line(t) = -1) =>
        /\ frame[t].retInt \notin valid
        /\ Live(heap, frame[t].retInt)
        /\ \A u \in Threads \ {t} :
             (frame[u].fn = "createTFLiteEngine" /\ Line(u) = -1) =>
               frame[u].retInt # frame[t].retInt
C1_Act ==
  \A t \in Threads :
    (Line(t) = 9 /\ Moved(t)) =>
      /\ ~Live(heap, frame'[t].engine)
      /\ Live(heap', frame'[t].engine)
      /\ \A a \in Addr : heap[a].live => heap'[a] = heap[a]
\* C1: the address line 9 obtains holds no live engine at that moment and no
\* live engine is disturbed by the allocation; as long as the caller uses no
\* freed handle, a handle that createTFLiteEngine returns is none of the
\* handles the caller still holds, and two calls returning at once return
\* different handles.
C1_DistinctHandle == []C1_Inv /\ [][C1_Act]_vars
C1_Witness ==
  \E t \in Threads :
    /\ frame[t].fn = "createTFLiteEngine" /\ Line(t) = -1
    /\ valid # {} /\ ~misuse

\* parts of C2, stated below
C2_Inv ==
  \A t \in Threads :
    frame[t].fn = "freeModel" =>
      /\ Has(t, 28) => (Has(t, 27) /\ Index(t, 27) < Index(t, 28))
      /\ Line(t) \in {29, -1} => (Count(t, 27) = 1 /\ Count(t, 28) = 1)
      /\ (Line(t) = 28 /\ hist[t].wasLive /\ ~misuse) =>
           /\ hist[t].trace = <<27>>
           /\ Live(heap, frame[t].nativePtr)
           /\ ~heap[frame[t].nativePtr].loaded
           /\ hist[t].reached = frame[t].nativePtr
C2_Act ==
  \A t \in Threads :
    (frame[t].fn = "freeModel" /\ Moved(t) /\ Live(heap, frame[t].nativePtr)) =>
      /\ Line(t) = 27 => Live(heap', frame[t].nativePtr)
      /\ Line(t) = 28 => heap'[frame[t].nativePtr] = NoEngine
\* C2: freeModel on a live handle calls the engine's freeModel first, while the
\* object is still allocated, then deletes it, each once; the delete leaves no
\* engine at the address.
C2_ReleaseThenDelete == []C2_Inv /\ [][C2_Act]_vars
C2_Witness ==
  \E t \in Threads :
    /\ frame[t].fn = "freeModel" /\ Line(t) = -1
    /\ hist[t].wasLive /\ ~misuse /\ ~ub
    /\ hist[t].trace = <<27, 28, 29>>
    /\ ~Live(heap, frame[t].nativePtr)

\* C3: transcribeBuffer acquires the elements, copies length-many of them,
\* releases them and only then calls the engine, which receives the copy, equal
\* to the caller's samples, and reads nothing through the released pointer.
C3_CopyThenReleaseThenCall ==
  \A t \in Threads :
    frame[t].fn = "transcribeBuffer" =>
      /\ IsPrefix(hist[t].trace, <<37, 38, 39, 40, 42, 43>>)
      /\ ~bufUB
      /\ Line(t) = 39 =>
           (frame[t].elems.state = "held" /\ frame[t].length = Len(jarr[t]))
      /\ Line(t) = 40 =>
           (frame[t].elems.state = "held" /\ frame[t].sampleVector = jarr[t])
      /\ Line(t) = 42 =>
           /\ frame[t].elems.state = "released"
           /\ ~frame[t].isView
           /\ Len(frame[t].sampleVector) = Len(hist[t].jarr0)
           /\ frame[t].sampleVector = hist[t].jarr0
      /\ Has(t, 42) => (hist[t].samples = hist[t].jarr0 /\ ~hist[t].heldAtCall)
C3_Witness ==
  \E t \in Threads :
    /\ frame[t].fn = "transcribeBuffer" /\ Line(t) = 43
    /\ Len(hist[t].jarr0) = MaxLen
    /\ hist[t].samples = hist[t].jarr0
    /\ frame[t].elems.isCopy

\* C4: as long as no deallocated engine was used, the caller's array holds
\* during and after transcribeBuffer what it held when the call was made,
\* whatever the engine wrote into the vector.
C4_CallerArrayUnchanged ==
  ~ub =>
    \A t \in Threads :
      frame[t].fn = "transcribeBuffer" => jarr[t] = hist[t].jarr0
C4_Witness ==
  \E t \in Threads :
    /\ frame[t].fn = "transcribeBuffer" /\ Line(t) = 43 /\ ~ub
    /\ frame[t].sampleVector # hist[t].samples
    /\ frame[t].elems.isCopy
    /\ jarr[t] = Ramp(MaxLen)

\* C5: loadModel on a live handle calls the engine's loadModel once, on the
\* engine of the handle, with a path that decodes to the caller's string and
\* with the caller's flag, and returns the status the engine produced.
C5_LoadPassThrough ==
  ~ub =>
    \A t \in Threads :
      frame[t].fn = "loadModel" =>
        /\ Count(t, 18) <= 1
        /\ Line(t) \in {20, -1} => Count(t, 18) = 1
        /\ Has(t, 18) =>
             /\ ModUTF8Decode(hist[t].path) = frame[t].jstr
             /\ hist[t].flag = (frame[t].jbool = JNI_TRUE)
             /\ hist[t].reached = frame[t].nativePtr
        /\ Line(t) = -1 => frame[t].retInt = hist[t].status
C5_Witness ==
  \E t \in Threads :
    /\ frame[t].fn = "loadModel" /\ Line(t) = -1 /\ ~ub
    /\ frame[t].retInt = -1
    /\ frame[t].jstr = MissingPath
    /\ frame[t].jbool = JNI_TRUE

\* parts of C6, stated below
C6_Inv ==
  (~ub /\ ~misuse) =>
    \A t \in Threads :
      (frame[t].fn = "loadModel" /\ frame[t].jstr = MissingPath) =>
        /\ Has(t, 18) => hist[t].status # 0
        /\ Line(t) = -1 => frame[t].retInt # 0
        /\ InFlight(t) =>
             (Live(heap, frame[t].nativePtr) /\ frame[t].nativePtr \in valid)
        /\ frame[t].nativePtr \in valid => Live(heap, frame[t].nativePtr)
C6_Act ==
  \A t \in Threads :
    (frame[t].fn = "loadModel" /\ Moved(t) /\ Line(t) > 0) =>
      /\ \A a \in Addr : heap'[a].live = heap[a].live
      /\ valid' = valid
\* C6: as long as the caller misuses no handle, loadModel with the path of a
\* file that does not exist gets a nonzero status from the engine and returns
\* it; until the call returns the engine stays allocated at the handle and the
\* caller still holds the handle, no statement of loadModel allocates or
\* deallocates an engine or takes the handle from the caller, and afterwards
\* the engine is allocated for as long as the caller holds the handle.
C6_FailedLoadKeepsHandle == []C6_Inv /\ [][C6_Act]_vars
C6_Witness ==
  \E t \in Threads :
    /\ frame[t].fn = "loadModel" /\ Line(t) = -1
    /\ frame[t].jstr = ExistingPath
    /\ frame[t].retInt = 0
    /\ ~ub /\ ~misuse
    /\ frame[t].nativePtr \in valid
    /\ heap[frame[t].nativePtr].live
    /\ heap[frame[t].nativePtr].loaded
    /\ heap[frame[t].nativePtr].failedLoad

\* parts of C7, stated below
C7_Act ==
  \A t \in Threads :
    (/\ Line(t) \in DerefLines
     /\ ~Live(heap, EngineOf(frame[t]))
     /\ (Moved(t) \/ crashed')) => ub'
\* C7: a thread that reaches a statement dereferencing the engine pointer while
\* no engine lives at it is not stopped: its step is the use of a deallocated
\* object.  If the caller passes no handle it has already given to freeModel
\* and frees no handle another call is using, no such use happens.
C7_UseAfterFree == [](~misuse => ~ub) /\ [][C7_Act]_vars
C7_Witness ==
  \E t \in Threads :
    /\ frame[t].fn = "freeModel"
    /\ ~hist[t].wasLive
    /\ Has(t, 27)
    /\ ub /\ ~crashed
    /\ frame[t].nativePtr \in issued

\* parts of C8, stated below
C8_Inv ==
  ~ub =>
    \A t \in Threads :
      (InFlight(t) /\ hist[t].reached # 0) =>
        hist[t].reached = frame[t].nativePtr
C8_Act ==
  ~ub =>
    \A t \in Threads :
      Moved(t) =>
        \A a \in Addr :
          (IF frame[t].fn = "createTFLiteEngine"
           THEN heap[a].live
           ELSE a # frame[t].nativePtr) => heap'[a] = heap[a]
\* C8: as long as no deallocated engine was used, a step of a call made with
\* handle h changes no engine but the one at h, createTFLiteEngine changes no
\* live engine, and every engine call acts on the engine at the call's handle.
C8_HandlesIndependent == []C8_Inv /\ [][C8_Act]_vars
C8_Witness ==
  \E t \in Threads, u \in Threads :
    /\ frame[t].fn = "freeModel" /\ Line(t) = 29
    /\ frame[u].fn = "loadModel" /\ Line(u) = 19
    /\ frame[u].nativePtr # frame[t].nativePtr
    /\ hist[t].wasLive /\ hist[u].wasLive
    /\ heap[frame[u].nativePtr].loaded
    /\ ~Live(heap, frame[t].nativePtr)
    /\ ~misuse /\ ~ub

\* C9: in loadModel and transcribeFile the char buffer is held when the engine
\* is called and is released after the call; when an entry point reaches its
\* return nothing acquired is still held, and what was acquired was released
\* once.
C9_AcquireReleasePaired ==
  /\ ~bufUB
  /\ \A t \in Threads :
       /\ Line(t) \in {18, 51} => frame[t].cstr.state = "held"
       /\ (Has(t, 18) \/ Has(t, 51)) => hist[t].heldAtCall
       /\ Line(t) \in {19, 52} =>
            (frame[t].cstr.state = "held" /\ (Has(t, 18) \/ Has(t, 51)))
       /\ Line(t) \in {10, 20, 29, 43, 53, -1} =>
            /\ frame[t].cstr.state # "held"
            /\ frame[t].elems.state # "held"
            /\ Count(t, 17) = Count(t, 19) /\ Count(t, 17) <= 1
            /\ Count(t, 50) = Count(t, 52) /\ Count(t, 50) <= 1
            /\ Count(t, 38) = Count(t, 40) /\ Count(t, 38) <= 1
            /\ frame[t].fn = "loadModel" => Count(t, 17) = 1
            /\ frame[t].fn = "transcribeFile" => Count(t, 50) = 1
            /\ frame[t].fn = "transcribeBuffer" => Count(t, 38) = 1
C9_Witness ==
  \E t \in Threads :
    /\ frame[t].fn = "transcribeFile" /\ Line(t) = 53
    /\ hist[t].heldAtCall
    /\ frame[t].cstr.state = "released"
    /\ hist[t].trace = <<50, 51, 52>>

\* parts of C10, stated below
C10_Inv ==
  /\ ~ub => LiveCount = nNew - nDel
  /\ (Idle /\ valid = {} /\ ~misuse) => LiveCount = 0
C10_Act ==
  \A t \in Threads :
    (Moved(t) /\
     frame[t].fn \in {"loadModel", "transcribeBuffer", "transcribeFile"}) =>
      /\ \A a \in Addr : heap'[a].live = heap[a].live
      /\ nNew' = nNew /\ nDel' = nDel
\* C10: as long as no deallocated engine was used, the engines allocated are
\* those created minus those deleted; calls other than createTFLiteEngine and
\* freeModel allocate and deallocate nothing; once the caller has passed every
\* handle it received to freeModel, once each, and all calls have returned, no
\* engine is left.
C10_NoLeak == []C10_Inv /\ [][C10_Act]_vars
C10_Witness ==
  /\ Idle /\ valid = {} /\ ~misuse /\ ~ub
  /\ nNew = 1 /\ nDel = 1
  /\ calls >= 4
  /\ LiveCount = 0

====
